---- MODULE Spec2Model ----
(***************************************************************************)
(* Model of the go-tableland execution engine (Executor, Block Scope,      *)
(* Transaction Scope) as it is exercised by                                *)
(* pkg/eventprocessor/impl/executor/impl/txnscope_runsql_test.go.          *)
(*                                                                         *)
(* One table, foo_1337_100, with one text column "zar" (the "string        *)
(* table" of the tests).  Its rows are a multiset of values.  The ACL      *)
(* Store holds the privileges granted on the table, per controller.        *)
(***************************************************************************)
EXTENDS Integers, Sequences, FiniteSets, TLC

\* ------------------------------------------------------------------ bounds
\* Rows the table may hold in a state of the model (caps the row counter).
MaxRows == 2
\* Largest configured maximum row count that is explored (0 .. MaxRowLimit).
MaxRowLimit == 2
\* Largest block height handed to NewBlockScope (0 .. MaxHeight).
MaxHeight == 1
\* Insert statements counted per block scope (caps the history counter).
MaxInserted == 3
MaxGoroutines == 2
MaxCallers == 2

\* --------------------------------------------------------------- constants
\* big.NewInt(100): the table id every RunSQL event of the tests carries.
TableID == 100
\* foo_1337_101: the table id the failing statement of the tests references.
WrongTableID == 101
\* ex.NewBlockScope(ctx, 0): the height every scope of the tests is opened for.
TestHeight == 0

\* ------------------------------------------------------------------ values
Vals == {"one", "two", "three"}
NoVal == "none"
ZeroController == "0x0"
Controllers == {ZeroController, "0x1"}
NoHeight == -1
NoIdx == -1

\* tableland.Privileges: PrivInsert, PrivUpdate, PrivDelete
Privileges == {"insert", "update", "delete"}
\* The roles as the grant and revoke statements of the tests spell them.
RoleD43C == "0xd43c59d5694ec111eb9e986c233200b14249558d"
Role4AFE == "0x4afe8e30db4549384b0a05bb796468b130c7d6e0"
Roles == {RoleD43C, Role4AFE}
\* role.String(): the mixed-case form under which the ACL Store keeps a
\* controller and under which the tests look it up.
RoleString(role) ==
    IF role = RoleD43C THEN "0xD43C59d5694eC111Eb9e986C233200b14249558D"
    ELSE IF role = Role4AFE THEN "0x4afE8e30DB4549384b0a05bb796468B130c7D6E0"
    ELSE role
ACLControllers == {RoleString(role) : role \in Roles}
\* system_acl without a row: no controller holds a privilege.
EmptyACL == [c \in ACLControllers |-> {}]

EmptyRows == [v \in Vals |-> 0]

\* select count(*) from foo_1337_100
RowCount(rows) == rows["one"] + rows["two"] + rows["three"]

\* The database: the rows of foo_1337_100, the table's controller and the
\* ACL Store's privileges on the table.
EmptyDB == [rows |-> EmptyRows, controller |-> ZeroController, acl |-> EmptyACL]

\* ------------------------------------------------------------------ errors
Err(m, x, y) == [msg |-> m, a |-> x, b |-> y]
NoError == Err("", 0, 0)
ErrNotAllowed(op) ==
    Err(IF op = "insert" THEN "insert is not allowed by policy"
        ELSE IF op = "update" THEN "update is not allowed by policy"
        ELSE "delete is not allowed by policy", 0, 0)
ErrColumn == Err("column zar is not allowed", 0, 0)
\* "table maximum row count exceeded (before %d, after %d)"
ErrRowCount(before, after) == Err("table maximum row count exceeded", before, after)
\* "number of affected rows %d does not match auditing count %d"
ErrAudit(affected, count) ==
    Err("number of affected rows does not match auditing count", affected, count)
ErrSQL == Err("sql execution error", 0, 0)

\* -------------------------------------------------------------- statements
Stmt(o, t, v, w) ==
    [op |-> o, table |-> t, val |-> v, where |-> w, privs |-> {}, roles |-> {}]
\* insert into foo_1337_100 values (v)
Insert(v) == Stmt("insert", TableID, v, NoVal)
\* insert into foo_1337_101 values (v): references a table that is not there
InsertWrongTable(v) == Stmt("insert", WrongTableID, v, NoVal)
\* update foo_1337_100 set zar = v [where zar = w]
Update(v, w) == Stmt("update", TableID, v, w)
\* delete from foo_1337_100 [where zar = w]
Delete(w) == Stmt("delete", TableID, NoVal, w)
\* grant <privs> on foo_1337_100 to <roles>
Grant(ps, rs) ==
    [op |-> "grant", table |-> TableID, val |-> NoVal, where |-> NoVal,
     privs |-> ps, roles |-> rs]
\* revoke <privs> on foo_1337_100 from <roles>
Revoke(ps, rs) ==
    [op |-> "revoke", table |-> TableID, val |-> NoVal, where |-> NoVal,
     privs |-> ps, roles |-> rs]

\* ---------------------------------------------------------------- policies
\* ethereum.ITablelandControllerPolicy; withCheck is the set of values of zar
\* that satisfy the check, hasCheck tells whether WithCheck is set.
Policy(ai, au, ad, w, cols, hc, chk) ==
    [allowInsert |-> ai, allowUpdate |-> au, allowDelete |-> ad,
     whereClause |-> w, updatableColumns |-> cols,
     hasCheck |-> hc, withCheck |-> chk]
\* the policy of execTxnWithRunSQLEvents
PolicyAllowAll == Policy(TRUE, TRUE, TRUE, NoVal, {}, FALSE, {})
\* ITablelandControllerPolicy{AllowInsert: false} (all flags false)
PolicyDenyAll == Policy(FALSE, FALSE, FALSE, NoVal, {}, FALSE, {})
\* {AllowUpdate: true, UpdatableColumns: {"zaz"}}
PolicyColsZaz == Policy(FALSE, TRUE, FALSE, NoVal, {"zaz"}, FALSE, {})
\* {AllowUpdate: true, WhereClause: "zar = 'two'", UpdatableColumns: {"zar"}}
PolicyWhereTwo == Policy(FALSE, TRUE, FALSE, "two", {"zar"}, FALSE, {})
\* {AllowDelete: true, WhereClause: "zar = 'two'"}: the same clause for DELETE
PolicyWhereTwoDelete == Policy(FALSE, FALSE, TRUE, "two", {}, FALSE, {})
\* {AllowInsert: true, AllowUpdate: true, WithCheck: "zar = 'two'"}
PolicyCheckTwo == Policy(TRUE, TRUE, FALSE, NoVal, {}, TRUE, {"two"})
\* {AllowInsert: true, WithCheck: "zar in ('one', 'two')"}
PolicyCheckOneTwo == Policy(TRUE, FALSE, FALSE, NoVal, {}, TRUE, {"one", "two"})

Policies ==
    {PolicyAllowAll, PolicyDenyAll, PolicyColsZaz, PolicyWhereTwo,
     PolicyWhereTwoDelete, PolicyCheckTwo, PolicyCheckOneTwo}

\* ------------------------------------------------------------------ events
Event(k, o, ss, p, c) ==
    [kind |-> k, isOwner |-> o, stmts |-> ss, policy |-> p, controller |-> c]
\* ethereum.ContractRunSQL{IsOwner, TableId: 100, Statement, Policy}
RunSQL(o, ss, p) == Event("RunSQL", o, ss, p, ZeroController)
\* ethereum.ContractSetController{TableId: 100, Controller}
SetController(c) == Event("SetController", TRUE, <<>>, PolicyAllowAll, c)

\* ------------------------------------------------------- statement execution
\* A targeting that ignores the policy clause.
MatchesStatementOnly(v, w1, w2) == w1 = NoVal \/ v = w1

\* A row with value v is targeted by a statement with predicate w1 under the
\* injected policy clause w2 (the two are conjoined).
Matches(v, w1, w2) == (w1 = NoVal \/ v = w1) /\ (w2 = NoVal \/ v = w2)

\* Number of rows a statement with predicates w1, w2 targets.
Targeted(rows, w1, w2) ==
    (IF Matches("one", w1, w2) THEN rows["one"] ELSE 0)
  + (IF Matches("two", w1, w2) THEN rows["two"] ELSE 0)
  + (IF Matches("three", w1, w2) THEN rows["three"] ELSE 0)

\* The rows after the statement ran (w2: the policy clause, or NoVal).
ExecRows(rows, s, w2) ==
    IF s.op = "insert" THEN [rows EXCEPT ![s.val] = @ + 1]
    ELSE IF s.op = "update" THEN
        [v \in Vals |->
            IF v = s.val
            THEN (IF Matches(v, s.where, w2) THEN 0 ELSE rows[v])
                 + Targeted(rows, s.where, w2)
            ELSE IF Matches(v, s.where, w2) THEN 0 ELSE rows[v]]
    ELSE [v \in Vals |-> IF Matches(v, s.where, w2) THEN 0 ELSE rows[v]]

\* Rows the statement reports as affected.
RowsAffected(rows, s, w2) ==
    IF s.op = "insert" THEN 1 ELSE Targeted(rows, s.where, w2)

\* An audit that counts every affected row as satisfying the check.
AuditCountAll(rows, s, w2, check) == RowsAffected(rows, s, w2)

\* Rows, among those the statement touched, that satisfy the audit check.
\* A deleted row is no longer there to satisfy it.
AuditCount(rows, s, w2, check) ==
    IF s.op = "delete" THEN 0
    ELSE IF s.val \in check THEN RowsAffected(rows, s, w2) ELSE 0

\* ------------------------------------------------------------ policy checks
\* A policy under which every operation kind is allowed.
AllowedAlways(pol, op) == TRUE

\* The policy's flag for the statement's operation kind.
Allowed(pol, op) ==
    IF op = "insert" THEN pol.allowInsert
    ELSE IF op = "update" THEN pol.allowUpdate
    ELSE pol.allowDelete

\* A column check that lets every column through.
ColumnAllowedAlways(pol, col) == TRUE

\* UPDATE may set column col: updatableColumns lists it, or lists nothing
\* (the tests update zar under policies that leave UpdatableColumns unset).
ColumnAllowed(pol, col) ==
    pol.updatableColumns = {} \/ col \in pol.updatableColumns

\* A policy that is enforced on every RunSQL event.
PolicyAppliesAlways(d, e) == TRUE

\* The policy of a RunSQL event constrains its statements when the caller is
\* not the owner, and also when the table has a controller set: the tests set
\* the controller "to anything other than zero" and then see the policy
\* enforced on events that carry IsOwner: true.
PolicyApplies(d, e) == ~e.isOwner \/ d.controller # ZeroController

\* A row-count check that only runs on the policy-constrained path.
RowCountCheckedPolicyOnly(applies) == applies

\* The row-count check runs whether or not the policy constrains the
\* statement: TestRunSQL_RowCountLimit's inserts carry IsOwner: true on a
\* table without controller, and the 11th fails.
RowCountChecked(applies) == TRUE

\* A row-count check that lets one row too many through.
RowCountExceededOffByOne(limit, after) == limit > 0 /\ after > limit + 1

\* A row-count check that takes a configured maximum of 0 for a maximum.
RowCountExceededZeroIsMaximum(limit, after) == after > limit

\* The row-count check of a statement: a configured maximum of 0 means that
\* no maximum is enforced (newExecutorWithStringTable(t, 0) and inserts).
RowCountExceeded(limit, after) == limit > 0 /\ after > limit

\* One mutating statement of a RunSQL event on database d: [db, err].
ExecWriteStmt(d, s, pol, applies, limit) ==
    LET w2 == IF applies /\ s.op \in {"update", "delete"}
              THEN pol.whereClause ELSE NoVal
        before == RowCount(d.rows)
        rows2 == ExecRows(d.rows, s, w2)
        after == RowCount(rows2)
        affected == RowsAffected(d.rows, s, w2)
        audit == AuditCount(d.rows, s, w2, pol.withCheck)
        fail(e) == [db |-> d, err |-> e]
    IN  IF s.table # TableID THEN fail(ErrSQL)
        ELSE IF applies /\ ~Allowed(pol, s.op) THEN fail(ErrNotAllowed(s.op))
        ELSE IF applies /\ s.op = "update" /\ ~ColumnAllowed(pol, "zar")
             THEN fail(ErrColumn)
        ELSE IF RowCountChecked(applies) /\ RowCountExceeded(limit, after)
             THEN [db |-> [d EXCEPT !.rows = rows2],
                   err |-> ErrRowCount(before, after)]
        ELSE IF applies /\ pol.hasCheck /\ audit # affected
             THEN [db |-> [d EXCEPT !.rows = rows2],
                   err |-> ErrAudit(affected, audit)]
        ELSE [db |-> [d EXCEPT !.rows = rows2], err |-> NoError]

\* ---------------------------------------------------------------- ACL Store
\* A grant that replaces the privileges the controller holds.
GrantOverwrites(held, ps) == ps

\* The privileges of a controller after a grant of ps: upsert, a union.
GrantPrivileges(held, ps) == held \cup ps

\* A revoke that takes every privilege from the controller.
RevokeAll(held, ps) == {}

\* A revoke that flips the privileges it names.
RevokeToggles(held, ps) == (held \ ps) \cup (ps \ held)

\* The privileges of a controller after a revoke of ps: a set difference.
RevokePrivileges(held, ps) == held \ ps

\* One grant or revoke statement on database d: [db, err].  The roles of the
\* statement are stored under role.String().
ExecACLStmt(d, s) ==
    LET cs == {RoleString(role) : role \in s.roles}
        acl2 == [c \in ACLControllers |->
                    IF c \notin cs THEN d.acl[c]
                    ELSE IF s.op = "grant" THEN GrantPrivileges(d.acl[c], s.privs)
                    ELSE RevokePrivileges(d.acl[c], s.privs)]
    IN  IF s.table # TableID THEN [db |-> d, err |-> ErrSQL]
        ELSE [db |-> [d EXCEPT !.acl = acl2], err |-> NoError]

\* One statement of a RunSQL event, by its kind.
ExecStmt(d, s, pol, applies, limit) ==
    IF s.op \in {"grant", "revoke"} THEN ExecACLStmt(d, s)
    ELSE ExecWriteStmt(d, s, pol, applies, limit)

\* The statements of one RunSQL event, in order, stopping at the first error.
RECURSIVE ExecWriteStmts(_, _, _, _, _)
ExecWriteStmts(d, ss, pol, applies, limit) ==
    IF ss = <<>> THEN [db |-> d, err |-> NoError]
    ELSE LET r == ExecStmt(d, Head(ss), pol, applies, limit)
         IN  IF r.err # NoError THEN r
             ELSE ExecWriteStmts(r.db, Tail(ss), pol, applies, limit)

\* One event on database d: [db, err].
ExecEvent(d, e, limit) ==
    IF e.kind = "SetController"
    THEN [db |-> [d EXCEPT !.controller = e.controller], err |-> NoError]
    ELSE ExecWriteStmts(d, e.stmts, e.policy, PolicyApplies(d, e), limit)

\* A 1-based ErrorEventIdx.
EventIndexOneBased(pos) == pos

\* ErrorEventIdx of the event at position pos of the list (positions from 1).
EventIndex(pos) == pos - 1

\* Events that each run on the database the transaction was given, so that
\* no event sees what the events before it did.
RECURSIVE ExecEventsIsolated(_, _, _, _)
ExecEventsIsolated(d, events, idx, limit) ==
    IF idx > Len(events) THEN [db |-> d, err |-> NoError, idx |-> NoIdx]
    ELSE LET r == ExecEvent(d, events[idx], limit)
         IN  IF r.err # NoError
             THEN [db |-> r.db, err |-> r.err, idx |-> EventIndex(idx)]
             ELSE IF idx = Len(events)
                  THEN [db |-> r.db, err |-> NoError, idx |-> NoIdx]
                  ELSE ExecEventsIsolated(d, events, idx + 1, limit)

\* The events of one transaction, in order, from position idx on:
\* [db, err, idx], idx the position of the failing event (NoIdx: none failed).
RECURSIVE ExecEvents(_, _, _, _)
ExecEvents(d, events, idx, limit) ==
    IF idx > Len(events) THEN [db |-> d, err |-> NoError, idx |-> NoIdx]
    ELSE LET r == ExecEvent(d, events[idx], limit)
         IN  IF r.err # NoError
             THEN [db |-> r.db, err |-> r.err, idx |-> EventIndex(idx)]
             ELSE ExecEvents(r.db, events, idx + 1, limit)

\* A rollback that leaves the failed transaction's writes in place.
RollbackKeepsWrites(savepoint, current) == current

\* ROLLBACK TO SAVEPOINT: the block transaction as it was at the savepoint.
RollbackToSavepoint(savepoint, current) == savepoint

\* A release that drops the writes of the successful transaction.
ReleaseDiscardsWrites(savepoint, current) == savepoint

\* RELEASE SAVEPOINT: the transaction's writes stay in the block transaction.
ReleaseSavepoint(savepoint, current) == current

\* executor.TxnExecutionResult{Error, ErrorEventIdx}
TxnResult(r) == [error |-> r.err, errorEventIdx |-> r.idx]
NoResult == [error |-> NoError, errorEventIdx |-> NoIdx]

\* ------------------------------------------------------------------- inputs
\* The statement lists of the RunSQL events (the tests separate the
\* statements of one event with ';').
StmtLists ==
    {<<Insert("one")>>, <<Insert("two")>>,
     <<Insert("one"), Insert("two")>>,
     <<Insert("two"), InsertWrongTable("three")>>,
     <<Update("three", NoVal)>>, <<Update("two", "one")>>,
     <<Delete(NoVal)>>, <<Delete("one")>>}

\* The RunSQL events of the tests' helpers carry IsOwner: true.
OwnerEvents ==
    {RunSQL(TRUE, ss, PolicyAllowAll) : ss \in StmtLists}
    \cup {RunSQL(TRUE, ss, PolicyDenyAll) :
            ss \in {<<Insert("one")>>, <<Update("three", NoVal)>>, <<Delete(NoVal)>>}}
    \cup {RunSQL(TRUE, <<Update("three", NoVal)>>, p) :
            p \in {PolicyColsZaz, PolicyWhereTwo, PolicyCheckTwo}}
    \cup {RunSQL(TRUE, <<Delete(NoVal)>>, PolicyWhereTwoDelete)}
    \cup {RunSQL(TRUE, ss, PolicyCheckTwo) :
            ss \in {<<Insert("one")>>, <<Insert("two")>>}}
    \cup {RunSQL(TRUE, <<Insert("one"), Insert("two")>>, PolicyCheckOneTwo)}

\* RunSQL events of a caller that is not the owner.
ControllerEvents ==
    {RunSQL(FALSE, <<Insert("one")>>, p) :
        p \in {PolicyAllowAll, PolicyDenyAll, PolicyCheckTwo}}

Events ==
    OwnerEvents \cup ControllerEvents \cup {SetController(c) : c \in Controllers}

\* The events that are explored as the first and as the second event of a
\* transaction of two events.
HeadEvents ==
    {RunSQL(TRUE, <<Insert("one")>>, PolicyAllowAll),
     RunSQL(TRUE, <<InsertWrongTable("three")>>, PolicyAllowAll),
     SetController("0x1")}
TailEvents ==
    {RunSQL(TRUE, <<Insert("two")>>, PolicyAllowAll),
     RunSQL(TRUE, <<InsertWrongTable("three")>>, PolicyAllowAll),
     RunSQL(TRUE, <<Insert("one")>>, PolicyDenyAll)}

\* eventfeed.TxnEvents.Events: the ordered events of one chain transaction.
TxnEventLists ==
    {<<e>> : e \in Events} \cup {<<e, f>> : e \in HeadEvents, f \in TailEvents}

\* -------------------------------------------------------------------- state
VARIABLES
    maxTableRowCount, \* the executor's configured maximum row count
    nOpen,            \* the number of block scopes that are open
    db,               \* the committed database
    txn,              \* the database as the block scope's transaction sees it
    bsState,          \* the block scope: "none", "open", "committed", "closed"
    bsHeight,         \* the height the block scope was opened for
    lastHeight,       \* the last committed block height
    lastOp,           \* the operation that ran last
    opErr,            \* the error that operation returned ("" for none)
    res,              \* the TxnExecutionResult of the last ExecuteTxnEvents
    refIdx,           \* history: the position of the first failing event
    dbAtOpen,         \* history: the database when the scope was opened
    expected,         \* history: dbAtOpen with the successful txns applied
    stage,            \* history: progress of the scope (see NextStage)
    lastEv,           \* history: the events of the last ExecuteTxnEvents
    inserted,         \* history: insert statements of the scope's successful txns
    onlyInserts,      \* history: those txns carried insert statements only
    exClosed,         \* the executor was closed: its connection is released
    closedOpen,       \* history: Executor.Close found a block scope open
    metricStore,      \* telemetry: the package-level metricStore
    once,             \* telemetry: the sync.Once: "new", "running", "done"
    mu,               \* telemetry: the goroutine that holds mu (NoGoroutine: free)
    pc,               \* telemetry: where each goroutine is in its call
    arg,              \* telemetry: the argument of each goroutine's call
    seen,             \* telemetry: the store Collect read last
    ret,              \* telemetry: what each goroutine's last Collect returned
    called,           \* history: that Collect invoked StoreMetric
    firstArg,         \* history: the argument of the call whose once.Do ran
    nonceLock,        \* client: the caller that holds the nonce tracker's lock
    cpc,              \* client: where each caller is in its call
    cop,              \* client: the method each caller called
    invoked,          \* client: invocations of f by callWithRetry in the call
    resyncs,          \* client: calls of tracker.Resync in the call
    ferr,             \* client: the error the last invocation of f returned
    callRet,          \* client: what the call returned
    unlocked,         \* history: calls of unlock() in the last invocation of f
    registered,       \* history: calls of registerPendingTx in the call
    firstErr,         \* history: the error the first invocation of f returned
    resyncOk          \* history: that Resync succeeded

\* The variables of the execution engine.
engineVars == <<maxTableRowCount, nOpen, db, txn, bsState, bsHeight,
                lastHeight, lastOp, opErr, res, refIdx, dbAtOpen, expected,
                stage, lastEv, inserted, onlyInserts>>

\* The state the operations of a block scope never touch.
executorVars == <<exClosed, closedOpen>>
telemetryVars == <<metricStore, once, mu, pc, arg, seen, ret, called, firstArg>>
clientVars == <<nonceLock, cpc, cop, invoked, resyncs, ferr, callRet, unlocked,
                registered, firstErr, resyncOk>>
\* The state of the engine's collaborators.
collaboratorVars == <<telemetryVars, clientVars>>
otherVars == <<executorVars, collaboratorVars>>

vars == <<engineVars, otherVars>>

\* The goroutines that call into the telemetry package.
Goroutines == 1 .. MaxGoroutines
NoGoroutine == 0
\* MetricStore values: the nil interface and two implementations.
NilStore == "nil"
Stores == {"s1", "s2"}
\* A MetricStore read while it is being written: neither the old nor the
\* new value.
TornStore == "torn"
NoArg == "none"
\* The goroutines that call into the registry client.
Callers == 1 .. MaxCallers
NoCaller == 0
\* Client.CreateTable, Client.RunSQL, Client.SetController
ClientMethods == {"CreateTable", "RunSQL", "SetController"}
NoMethod == "none"
\* Error texts, as the phrases they are made of; NoErrText is a nil error.
NoErrText == <<>>
\* What a call returns: nothing yet, the transaction, or an error text.
NoRet == <<"no return">>
RetTx == <<"tx">>
\* The metrics handed to Collect: a StateHash and a value of another type.
StateHash == "StateHash"
OtherMetric == "other"
Metrics == {StateHash, OtherMetric}

NoErr == ""
NoEvents == <<>>
ErrAlreadyOpen == "block scope is already open"
ErrNotOpen == "block scope is not open"
ErrHeight == "height is not greater than the last committed height"
ErrExecutingEvent == "executing event"

Init ==
    /\ maxTableRowCount \in 0 .. MaxRowLimit
    /\ nOpen = 0
    /\ db = EmptyDB
    /\ txn = EmptyDB
    /\ bsState = "none"
    /\ bsHeight = NoHeight
    /\ lastHeight = NoHeight
    /\ lastOp = "init"
    /\ opErr = NoErr
    /\ res = NoResult
    /\ refIdx = NoIdx
    /\ dbAtOpen = EmptyDB
    /\ expected = EmptyDB
    /\ stage = 0
    /\ lastEv = NoEvents
    /\ inserted = 0
    /\ onlyInserts = TRUE
    /\ exClosed = FALSE
    /\ closedOpen = FALSE
    /\ metricStore = NilStore
    /\ once = "new"
    /\ mu = NoGoroutine
    /\ pc = [g \in Goroutines |-> "idle"]
    /\ arg = [g \in Goroutines |-> NoArg]
    /\ seen = [g \in Goroutines |-> NoArg]
    /\ ret = [g \in Goroutines |-> NoArg]
    /\ called = [g \in Goroutines |-> FALSE]
    /\ firstArg = NoArg
    /\ nonceLock = NoCaller
    /\ cpc = [c \in Callers |-> "idle"]
    /\ cop = [c \in Callers |-> NoMethod]
    /\ invoked = [c \in Callers |-> 0]
    /\ resyncs = [c \in Callers |-> 0]
    /\ ferr = [c \in Callers |-> NoErrText]
    /\ callRet = [c \in Callers |-> NoRet]
    /\ unlocked = [c \in Callers |-> 0]
    /\ registered = [c \in Callers |-> 0]
    /\ firstErr = [c \in Callers |-> NoErrText]
    /\ resyncOk = [c \in Callers |-> FALSE]

\* What an operation returns; the result of a transaction is only held right
\* after ExecuteTxnEvents.
Returned(op, err) == lastOp' = op /\ opErr' = err
NoTxnResult == res' = NoResult /\ refIdx' = NoIdx /\ lastEv' = NoEvents

\* ----------------------------------------------------------------- executor
\* An executor that never sees a block scope as open.
AlreadyOpenNever(n) == FALSE

\* The executor's check that a block scope is already open.
AlreadyOpen(n) == n > 0

\* The replay guard as a strict comparison.
HeightStrictlyGreater(height, last) == height > last

\* A height equal to the last committed one is accepted: the tests commit a
\* scope opened with height 0 and open height 0 again, with no error.
HeightAccepted(height, last) == height >= last

\* Executor.NewBlockScope(ctx, height) while a block scope is open.
NewBlockScopeWhileOpen(height) ==
    /\ AlreadyOpen(nOpen)
    /\ Returned("NewBlockScope", ErrAlreadyOpen)
    /\ NoTxnResult
    /\ UNCHANGED otherVars
    /\ UNCHANGED <<maxTableRowCount, nOpen, db, txn, bsState, bsHeight,
                   lastHeight, dbAtOpen, expected, stage, inserted, onlyInserts>>

\* Executor.NewBlockScope(ctx, height) returning a new, open block scope
\* bound to a fresh database transaction.  The tests never open a height
\* below the last committed one; for such a height both outcomes, this one
\* and NewBlockScopeRejectsHeight, are explored.
NewBlockScopeOpens(height) ==
    /\ ~AlreadyOpen(nOpen)
    /\ Returned("NewBlockScope", NoErr)
    /\ NoTxnResult
    /\ UNCHANGED otherVars
    /\ nOpen' = nOpen + 1
    /\ bsState' = "open"
    /\ bsHeight' = height
    /\ txn' = db
    /\ dbAtOpen' = db
    /\ expected' = db
    /\ stage' = 0
    /\ inserted' = 0
    /\ onlyInserts' = TRUE
    /\ UNCHANGED <<maxTableRowCount, db, lastHeight>>

\* Executor.NewBlockScope(ctx, height) rejecting the height.
NewBlockScopeRejectsHeight(height) ==
    /\ ~AlreadyOpen(nOpen)
    /\ ~HeightAccepted(height, lastHeight)
    /\ Returned("NewBlockScope", ErrHeight)
    /\ NoTxnResult
    /\ UNCHANGED otherVars
    /\ UNCHANGED <<maxTableRowCount, nOpen, db, txn, bsState, bsHeight,
                   lastHeight, dbAtOpen, expected, stage, inserted, onlyInserts>>

\* -------------------------------------------------------------- block scope
\* A block scope that takes itself for open until it is closed.
ScopeNotClosed(st) == st \in {"open", "committed"}

\* The block scope's check that it is still open.
ScopeIsOpen(st) == st = "open"

\* An ExecuteTxnEvents that hands the transaction's failure to its caller as
\* an error of the block scope.
PropagatesFailure(err) == IF err # NoError THEN ErrExecutingEvent ELSE NoErr

\* The operation-level error of ExecuteTxnEvents for a transaction that
\* failed with err: none, the failure is reported in the result only.
PropagatedError(err) == NoErr

\* history: the 0-based position of the first event whose prefix of the
\* transaction does not run through (NoIdx when the whole list does).
FirstFailing(d, events, limit) ==
    LET bad == {k \in 1 .. Len(events) :
                   ExecEvents(d, SubSeq(events, 1, k), 1, limit).err # NoError}
    IN  IF bad = {} THEN NoIdx
        ELSE (CHOOSE k \in bad : \A j \in bad : k <= j) - 1

\* history: 1 after a successful writing transaction, 2 after a later failed
\* transaction that had already written, 3 after a later successful writing
\* transaction.
NextStage(s, failed, wrote) ==
    IF s = 0 /\ ~failed /\ wrote THEN 1
    ELSE IF s = 1 /\ failed /\ wrote THEN 2
    ELSE IF s = 2 /\ ~failed /\ wrote THEN 3
    ELSE s

\* blockScope.ExecuteTxnEvents(ctx, TxnEvents{events}) on an open scope:
\* SAVEPOINT, the events in order, then ROLLBACK TO or RELEASE.
ExecuteTxn(events) ==
    /\ ScopeIsOpen(bsState)
    /\ LET r == ExecEvents(txn, events, 1, maxTableRowCount)
           failed == r.err # NoError
           g == ExecEvents(expected, events, 1, maxTableRowCount)
       IN  /\ txn' = IF failed THEN RollbackToSavepoint(txn, r.db)
                     ELSE ReleaseSavepoint(txn, r.db)
           /\ res' = TxnResult(r)
           /\ expected' = IF g.err # NoError THEN expected ELSE g.db
           /\ Returned("ExecuteTxnEvents", PropagatedError(r.err))
    /\ RowCount(txn'.rows) <= MaxRows
    /\ refIdx' = FirstFailing(txn, events, maxTableRowCount)
    /\ UNCHANGED <<maxTableRowCount, nOpen, db, bsState, bsHeight, lastHeight,
                   dbAtOpen>>

ExecuteTxnEvents(events) ==
    /\ ExecuteTxn(events)
    /\ UNCHANGED otherVars
    /\ UNCHANGED <<stage, lastEv, inserted, onlyInserts>>

\* The same, with the history of the scope's transactions kept in stage.
ExecuteTxnEventsStaged(events) ==
    /\ ExecuteTxn(events)
    /\ UNCHANGED otherVars
    /\ LET r == ExecEvents(txn, events, 1, maxTableRowCount)
       IN  stage' = NextStage(stage, r.err # NoError, r.db # txn)
    /\ UNCHANGED <<lastEv, inserted, onlyInserts>>

\* The same, with the events kept in lastEv.
ExecuteTxnEventsTraced(events) ==
    /\ ExecuteTxn(events)
    /\ UNCHANGED otherVars
    /\ lastEv' = events
    /\ UNCHANGED <<stage, inserted, onlyInserts>>

\* history: the insert statements the events of a transaction carry.
RECURSIVE InsertStmts(_)
InsertStmts(events) ==
    IF events = <<>> THEN 0
    ELSE Cardinality({i \in 1 .. Len(Head(events).stmts) :
                         Head(events).stmts[i].op = "insert"})
         + InsertStmts(Tail(events))

\* history: every statement the events of a transaction carry is an insert.
OnlyInsertStmts(events) ==
    \A k \in 1 .. Len(events) :
        \A i \in 1 .. Len(events[k].stmts) : events[k].stmts[i].op = "insert"

\* The same, with the insert statements of the scope's successful
\* transactions counted (up to MaxInserted).
ExecuteTxnEventsCounted(events) ==
    /\ ExecuteTxn(events)
    /\ UNCHANGED otherVars
    /\ LET r == ExecEvents(txn, events, 1, maxTableRowCount)
       IN  IF r.err # NoError
           THEN UNCHANGED <<inserted, onlyInserts>>
           ELSE /\ inserted' = inserted + InsertStmts(events)
                /\ onlyInserts' = (onlyInserts /\ OnlyInsertStmts(events))
    /\ inserted' <= MaxInserted
    /\ UNCHANGED <<stage, lastEv>>

\* blockScope.ExecuteTxnEvents on a scope that is not open.
ExecuteTxnEventsNotOpen(events) ==
    /\ bsState # "none"
    /\ ~ScopeIsOpen(bsState)
    /\ Returned("ExecuteTxnEvents", ErrNotOpen)
    /\ NoTxnResult
    /\ UNCHANGED otherVars
    /\ UNCHANGED <<maxTableRowCount, nOpen, db, txn, bsState, bsHeight,
                   lastHeight, dbAtOpen, expected, stage, inserted, onlyInserts>>

\* blockScope.Commit() on an open scope.
Commit ==
    /\ ScopeIsOpen(bsState)
    /\ db' = txn
    /\ bsState' = "committed"
    /\ nOpen' = nOpen - 1
    /\ lastHeight' = bsHeight
    /\ Returned("Commit", NoErr)
    /\ NoTxnResult
    /\ UNCHANGED otherVars
    /\ UNCHANGED <<maxTableRowCount, txn, bsHeight, dbAtOpen, expected, stage,
                   inserted, onlyInserts>>

\* blockScope.Commit() on a scope that is not open.
CommitNotOpen ==
    /\ bsState # "none"
    /\ ~ScopeIsOpen(bsState)
    /\ Returned("Commit", ErrNotOpen)
    /\ NoTxnResult
    /\ UNCHANGED otherVars
    /\ UNCHANGED <<maxTableRowCount, nOpen, db, txn, bsState, bsHeight,
                   lastHeight, dbAtOpen, expected, stage, inserted, onlyInserts>>

\* A Close() that persists the open transaction instead of discarding it.
CloseCommits(committed, current) == current

\* The database after Close() on an open scope, from the committed database
\* and the scope's transaction: the transaction is rolled back.
CloseRollback(committed, current) == committed

\* A Close() that rolls back to the database the scope was opened on.
CloseUndoesCommit(committed, atOpen) == atOpen

\* The database after Close() on a committed scope, from the committed
\* database and the one the scope was opened on: nothing is rolled back.
CloseAfterCommit(committed, atOpen) == committed

\* blockScope.Close() on an open scope: the whole transaction is rolled back.
CloseOpen ==
    /\ ScopeIsOpen(bsState)
    /\ db' = CloseRollback(db, txn)
    /\ txn' = db'
    /\ bsState' = "closed"
    /\ nOpen' = nOpen - 1
    /\ Returned("Close", NoErr)
    /\ NoTxnResult
    /\ UNCHANGED otherVars
    /\ UNCHANGED <<maxTableRowCount, bsHeight, lastHeight, dbAtOpen, expected,
                   stage, inserted, onlyInserts>>

\* blockScope.Close() after Commit(): a no-op.
CloseCommitted ==
    /\ bsState = "committed"
    /\ db' = CloseAfterCommit(db, dbAtOpen)
    /\ txn' = db'
    /\ Returned("Close", NoErr)
    /\ NoTxnResult
    /\ UNCHANGED otherVars
    /\ UNCHANGED <<maxTableRowCount, nOpen, bsState, bsHeight, lastHeight,
                   dbAtOpen, expected, stage, inserted, onlyInserts>>

\* blockScope.Close() on a scope that was closed already.
CloseClosed ==
    /\ bsState = "closed"
    /\ Returned("Close", ErrNotOpen)
    /\ NoTxnResult
    /\ UNCHANGED otherVars
    /\ UNCHANGED <<maxTableRowCount, nOpen, db, txn, bsState, bsHeight,
                   lastHeight, dbAtOpen, expected, stage, inserted, onlyInserts>>

\* The engine as the tests drive it: every scope is opened with height 0.
Next ==
    \/ NewBlockScopeWhileOpen(TestHeight)
    \/ NewBlockScopeOpens(TestHeight)
    \/ \E events \in TxnEventLists : ExecuteTxnEvents(events)
    \/ \E events \in TxnEventLists : ExecuteTxnEventsNotOpen(events)
    \/ Commit
    \/ CommitNotOpen
    \/ CloseOpen
    \/ CloseCommitted
    \/ CloseClosed

Spec == Init /\ [][Next]_vars

\* The transactions explored by SpecBlock: single inserts, a transaction
\* whose second statement fails, one whose second event fails, a delete.
BlockTxnEventLists ==
    {<<RunSQL(TRUE, <<Insert("one")>>, PolicyAllowAll)>>,
     <<RunSQL(TRUE, <<Insert("two")>>, PolicyAllowAll)>>,
     <<RunSQL(TRUE, <<Insert("two"), InsertWrongTable("three")>>, PolicyAllowAll)>>,
     <<RunSQL(TRUE, <<Insert("one")>>, PolicyAllowAll),
       RunSQL(FALSE, <<Insert("one")>>, PolicyDenyAll)>>,
     <<RunSQL(TRUE, <<Delete("one")>>, PolicyAllowAll)>>}

\* The block scopes of one executor, opened for any height, with the history
\* of each scope's transactions.
NextBlock ==
    \/ \E h \in 0 .. MaxHeight : NewBlockScopeWhileOpen(h)
    \/ \E h \in 0 .. MaxHeight : NewBlockScopeOpens(h)
    \/ \E h \in 0 .. MaxHeight : NewBlockScopeRejectsHeight(h)
    \/ \E events \in BlockTxnEventLists : ExecuteTxnEventsStaged(events)
    \/ \E events \in BlockTxnEventLists : ExecuteTxnEventsNotOpen(events)
    \/ Commit
    \/ CommitNotOpen
    \/ CloseOpen
    \/ CloseCommitted
    \/ CloseClosed

SpecBlock == Init /\ [][NextBlock]_vars

\* The transactions explored by SpecPolicy: one RunSQL event each, under the
\* policies of the tests, and the SetController the tests run first.
PolicyTxnEventLists ==
    {<<SetController("0x1")>>}
    \cup {<<RunSQL(TRUE, ss, PolicyAllowAll)>> :
            ss \in {<<Insert("one")>>, <<Insert("two")>>,
                    <<Insert("one"), Insert("two")>>}}
    \cup {<<RunSQL(TRUE, ss, PolicyDenyAll)>> :
            ss \in {<<Insert("one")>>, <<Update("three", NoVal)>>,
                    <<Delete(NoVal)>>}}
    \cup {<<RunSQL(TRUE, <<Update("three", NoVal)>>, p)>> :
            p \in {PolicyColsZaz, PolicyWhereTwo, PolicyCheckTwo}}
    \cup {<<RunSQL(TRUE, <<Update("three", "one")>>, PolicyWhereTwo)>>,
          <<RunSQL(TRUE, <<Delete(NoVal)>>, PolicyWhereTwoDelete)>>,
          <<RunSQL(TRUE, <<Insert("one")>>, PolicyCheckTwo)>>,
          <<RunSQL(TRUE, <<Insert("two")>>, PolicyCheckTwo)>>,
          <<RunSQL(TRUE, <<Insert("one"), Insert("two")>>, PolicyCheckOneTwo)>>,
          <<RunSQL(FALSE, <<Insert("one")>>, PolicyAllowAll)>>}

\* The engine under the policies of the tests, every scope opened with
\* height 0, with the events of the last transaction kept.
NextPolicy ==
    \/ NewBlockScopeWhileOpen(TestHeight)
    \/ NewBlockScopeOpens(TestHeight)
    \/ \E events \in PolicyTxnEventLists : ExecuteTxnEventsTraced(events)
    \/ \E events \in PolicyTxnEventLists : ExecuteTxnEventsNotOpen(events)
    \/ Commit
    \/ CommitNotOpen
    \/ CloseOpen
    \/ CloseCommitted
    \/ CloseClosed

SpecPolicy == Init /\ [][NextPolicy]_vars

\* The grant and revoke statements explored by SpecAcl: those of the tests
\* ("one grant", "grant upsert", "grant revoke"), single grants and revokes,
\* and a statement carried twice.
AclStmts ==
    {Grant({"insert", "update", "delete"}, {RoleD43C, Role4AFE}),
     Grant({"insert"}, {RoleD43C, Role4AFE}),
     Grant({"update"}, {RoleD43C}),
     Grant({"insert", "delete"}, {Role4AFE}),
     Grant({"insert", "update", "delete"}, {RoleD43C}),
     Revoke({"insert", "delete"}, {RoleD43C}),
     Revoke({"update"}, {RoleD43C, Role4AFE})}
AclStmtLists ==
    {<<s>> : s \in AclStmts}
    \cup {<<s, s>> : s \in {Grant({"update"}, {RoleD43C}),
                            Revoke({"insert", "delete"}, {RoleD43C})}}
    \cup {<<Grant({"insert"}, {RoleD43C, Role4AFE}),
            Grant({"update"}, {RoleD43C}),
            Grant({"insert", "delete"}, {Role4AFE})>>,
          <<Grant({"insert", "update", "delete"}, {RoleD43C}),
            Revoke({"insert", "delete"}, {RoleD43C})>>,
          <<Grant({"insert", "delete"}, {Role4AFE}), InsertWrongTable("three")>>}
AclTxnEventLists == {<<RunSQL(TRUE, ss, PolicyAllowAll)>> : ss \in AclStmtLists}

\* newExecutorWithIntegerTable(t, 0): no maximum row count is configured.
InitNoLimit == Init /\ maxTableRowCount = 0

\* The engine under grant and revoke statements.
NextAcl ==
    \/ NewBlockScopeWhileOpen(TestHeight)
    \/ NewBlockScopeOpens(TestHeight)
    \/ \E events \in AclTxnEventLists : ExecuteTxnEventsTraced(events)
    \/ \E events \in AclTxnEventLists : ExecuteTxnEventsNotOpen(events)
    \/ Commit
    \/ CommitNotOpen
    \/ CloseOpen
    \/ CloseCommitted
    \/ CloseClosed

SpecAcl == InitNoLimit /\ [][NextAcl]_vars

\* The transactions explored by SpecInsert: those of the test "multiple
\* inserts" (one insert, two inserts in one event), two events with one
\* insert each, a transaction that fails after its first insert, a delete
\* and an update.
InsertTxnEventLists ==
    {<<RunSQL(TRUE, <<Insert("one")>>, PolicyAllowAll)>>,
     <<RunSQL(TRUE, <<Insert("one"), Insert("two")>>, PolicyAllowAll)>>,
     <<RunSQL(TRUE, <<Insert("two")>>, PolicyAllowAll),
       RunSQL(TRUE, <<Insert("three")>>, PolicyAllowAll)>>,
     <<RunSQL(TRUE, <<Insert("two"), InsertWrongTable("three")>>, PolicyAllowAll)>>,
     <<RunSQL(TRUE, <<Delete("one")>>, PolicyAllowAll)>>,
     <<RunSQL(TRUE, <<Update("two", "one")>>, PolicyAllowAll)>>}

\* The engine with the insert statements of each scope counted.
NextInsert ==
    \/ NewBlockScopeWhileOpen(TestHeight)
    \/ NewBlockScopeOpens(TestHeight)
    \/ \E events \in InsertTxnEventLists : ExecuteTxnEventsCounted(events)
    \/ \E events \in InsertTxnEventLists : ExecuteTxnEventsNotOpen(events)
    \/ Commit
    \/ CommitNotOpen
    \/ CloseOpen
    \/ CloseCommitted
    \/ CloseClosed

SpecInsert == Init /\ [][NextInsert]_vars

\* ------------------------------------------------------------------- claims

\* C1: failure isolation.  When a block scope is committed, the database is
\* the one the scope was opened on with every successful transaction applied
\* in order and every failed transaction skipped entirely: no write of a
\* failed transaction is in it (not even those of statements that ran before
\* the failing one), and the writes of the successful transactions before and
\* after it are.
C1_FailureIsolation ==
    (lastOp = "Commit" /\ opErr = NoErr) => db = expected

\* C1 witness: a scope is committed after a successful writing transaction,
\* then a failed transaction that had already written, then another
\* successful writing transaction.
C1_Witness ==
    /\ lastOp = "Commit" /\ opErr = NoErr
    /\ stage = 3
    /\ db # dbAtOpen

\* C2: Close() on an open scope (no Commit() before) leaves the database as
\* it was when the scope was opened, whatever ran inside the scope.
C2_CloseDiscards ==
    (lastOp = "Close" /\ bsState = "closed" /\ opErr = NoErr)
        => (db = dbAtOpen /\ txn = dbAtOpen)

\* C2 witness: a scope is closed without commit after successful and failed
\* transactions; the successful ones had written to the transaction.
C2_Witness ==
    /\ lastOp = "Close" /\ bsState = "closed" /\ opErr = NoErr
    /\ stage = 3
    /\ expected # dbAtOpen
    /\ db = dbAtOpen

\* C3: at most one block scope is open at any time; NewBlockScope called
\* while a scope is open cannot succeed, and once the scope is committed or
\* closed a NewBlockScope call can succeed again.
C3_SingleOpenScope ==
    /\ nOpen <= 1
    /\ (nOpen = 1) <=> (bsState = "open")
    /\ bsState = "open" =>
          \A h \in 0 .. MaxHeight : ~ENABLED NewBlockScopeOpens(h)
    /\ bsState \in {"committed", "closed"} =>
          \E h \in 0 .. MaxHeight : ENABLED NewBlockScopeOpens(h)
    /\ (lastOp = "NewBlockScope" /\ opErr = ErrAlreadyOpen) => bsState = "open"

\* C3 witness: a scope was committed, a new scope was opened after it, and a
\* further NewBlockScope call failed while that scope was open.
C3_Witness ==
    /\ lastOp = "NewBlockScope" /\ opErr = ErrAlreadyOpen
    /\ bsState = "open" /\ nOpen = 1
    /\ lastHeight # NoHeight

C5_ScopeStateMachine ==
    [][ /\ (bsState \in {"committed", "closed"}
            /\ ~(lastOp' = "NewBlockScope" /\ opErr' = NoErr))
              => bsState' = bsState
        /\ (bsState = "open" /\ bsState' # "open")
              => (/\ bsState' \in {"committed", "closed"}
                  /\ lastOp' = (IF bsState' = "committed" THEN "Commit" ELSE "Close"))
        /\ (bsState \in {"committed", "closed"}
            /\ lastOp' \in {"ExecuteTxnEvents", "Commit"})
              => (opErr' # NoErr /\ db' = db /\ txn' = txn)
      ]_vars

\* C5 witness: Commit was called on a committed scope that had written, and
\* failed.
C5_Witness ==
    /\ lastOp = "Commit" /\ opErr = ErrNotOpen
    /\ bsState = "committed"
    /\ db # dbAtOpen

\* C6: Close() after a successful Commit() returns no error and changes
\* nothing: what was committed stays in the database.
C6_CloseAfterCommitNoop ==
    [][ (bsState = "committed" /\ lastOp' = "Close")
           => (/\ opErr' = NoErr
               /\ db' = db
               /\ UNCHANGED <<bsState, nOpen, lastHeight>>)
      ]_vars

\* C6 witness: Close() returned on a committed scope whose commit had changed
\* the database.
C6_Witness ==
    /\ lastOp = "Close" /\ opErr = NoErr /\ bsState = "committed"
    /\ db # dbAtOpen
    /\ db = expected

\* C7: ExecuteTxnEvents on an open scope returns no operation-level error
\* when the transaction fails (policy rejection, row count, audit check, SQL
\* error): the failure is in the result only, the scope stays open, and a
\* further ExecuteTxnEvents and Commit go through.
C7_FailureNotPropagated ==
    (lastOp = "ExecuteTxnEvents" /\ res.error # NoError) =>
        /\ opErr = NoErr
        /\ bsState = "open"
        /\ ENABLED ExecuteTxnEvents(<<SetController(ZeroController)>>)
        /\ ENABLED Commit

\* C7 witness: a transaction failed its audit check in a scope that holds the
\* writes of an earlier transaction.
C7_Witness ==
    /\ lastOp = "ExecuteTxnEvents" /\ opErr = NoErr /\ bsState = "open"
    /\ res.error = ErrAudit(1, 0)
    /\ txn.rows # db.rows

\* C8: a failed transaction leaves nothing applied (neither the failing event
\* nor those around it) and its result carries the error with the 0-based
\* position of the first failing event; a transaction whose events all
\* succeed has neither error nor index.
C8_ErrorEventIndex ==
    [][ (lastOp' = "ExecuteTxnEvents" /\ opErr' = NoErr) =>
           IF res'.error # NoError
           THEN /\ refIdx' # NoIdx
                /\ res'.errorEventIdx = refIdx'
                /\ txn' = txn
           ELSE /\ refIdx' = NoIdx
                /\ res'.errorEventIdx = NoIdx
      ]_vars

\* C8 witness: the second event of a transaction failed.
C8_Witness ==
    /\ lastOp = "ExecuteTxnEvents" /\ opErr = NoErr
    /\ res.error # NoError
    /\ res.errorEventIdx = 1

\* C9 (as stated): the committed table never holds more rows than the
\* configured maximum.
C9_Original == RowCount(db.rows) <= maxTableRowCount

\* C9 (amended): when the configured maximum is greater than 0, the committed
\* table never holds more rows than the configured maximum (a maximum of 0
\* sets no limit).
C9_RowCountWithinMaximum ==
    maxTableRowCount > 0 => RowCount(db.rows) <= maxTableRowCount

\* C9 witness: with a maximum of 2 and one row in the table, an event with
\* two inserts was rejected at its second insert.
C9_Witness ==
    /\ maxTableRowCount = 2
    /\ lastOp = "ExecuteTxnEvents"
    /\ res.error = ErrRowCount(2, 3)
    /\ RowCount(txn.rows) = 1

\* A transaction of one RunSQL event with the single statement
\* insert into foo_1337_100 values (v), as the tests' insertRow submits it.
SingleInsert(v) ==
    ExecuteTxnEvents(<<RunSQL(TRUE, <<Insert(v)>>, PolicyAllowAll)>>)

\* The outcome C10 describes for a single-row insert under maximum n.
InsertOutcome(n) ==
    IF RowCount(txn.rows) < n
    THEN /\ res'.error = NoError
         /\ RowCount(txn'.rows) = RowCount(txn.rows) + 1
    ELSE /\ res'.error = ErrRowCount(n, n + 1)
         /\ RowCount(txn.rows) = n
         /\ txn' = txn
         /\ db' = db

\* C10 (as stated): for every configured maximum N a single-row insert
\* succeeds while the table holds fewer than N rows and fails with
\* "(before N, after N+1)" once it holds N, the table keeping its N rows.
C10_Original ==
    [][ \A v \in Vals : SingleInsert(v) => InsertOutcome(maxTableRowCount) ]_vars

\* C10 (amended): the same for every configured maximum N greater than 0.
C10_InsertUpToMaximum ==
    [][ \A v \in Vals :
          (maxTableRowCount > 0 /\ SingleInsert(v))
              => InsertOutcome(maxTableRowCount) ]_vars

\* C10 witness: with a maximum of 2 and 2 committed rows, the next insert
\* failed with (before 2, after 3) and the table holds 2 rows.
C10_Witness ==
    /\ maxTableRowCount = 2
    /\ lastOp = "ExecuteTxnEvents"
    /\ res.error = ErrRowCount(2, 3)
    /\ RowCount(db.rows) = 2
    /\ RowCount(txn.rows) = 2

\* ExecuteTxnEvents has just run the transaction of the single event e on an
\* open scope (SpecPolicy and SpecAcl keep the events in lastEv).
Executes(e) ==
    lastOp' = "ExecuteTxnEvents" /\ opErr' = NoErr /\ lastEv' = <<e>>

\* The same as a state: the last operation ran the single event e.
Executed(e) ==
    lastOp = "ExecuteTxnEvents" /\ opErr = NoErr /\ lastEv = <<e>>

\* C11: the maximum-row-count check is applied to a RunSQL event with
\* isOwner true on which no policy is enforced exactly as to a
\* policy-constrained one: the owner's event fails with the row-count error
\* the same statements give under an enforced allow-all policy, and an owner
\* insert that takes the table above its maximum fails the transaction,
\* which leaves the table as it was.
C11_OwnerRowCount ==
    [][ \A ss \in {<<Insert("one")>>, <<Insert("two")>>,
                   <<Insert("one"), Insert("two")>>} :
          LET own == RunSQL(TRUE, ss, PolicyAllowAll)
              con == RunSQL(FALSE, ss, PolicyAllowAll)
          IN  (Executes(own) /\ ~PolicyApplies(txn, own)) =>
                /\ PolicyApplies(txn, con)
                /\ res'.error = ExecEvents(txn, <<con>>, 1, maxTableRowCount).err
                /\ (maxTableRowCount > 0
                    /\ RowCount(txn.rows) + Len(ss) > maxTableRowCount)
                      => (/\ res'.error.msg = ErrRowCount(0, 0).msg
                          /\ txn' = txn)
      ]_vars

\* C11 witness: on a table without controller and with a maximum of 2 that
\* holds 2 rows, an owner's insert failed with (before 2, after 3).
C11_Witness ==
    /\ Executed(RunSQL(TRUE, <<Insert("one")>>, PolicyAllowAll))
    /\ txn.controller = ZeroController
    /\ maxTableRowCount = 2
    /\ RowCount(txn.rows) = 2
    /\ res.error = ErrRowCount(2, 3)

\* The RunSQL events with isOwner true that SpecPolicy runs.
OwnerRunSQLEvents ==
    {events[1] : events \in {x \in PolicyTxnEventLists :
                                x[1].kind = "RunSQL" /\ x[1].isOwner}}

\* The transaction of the single event e ended as its statements end when no
\* policy is looked at: nothing rejected, nothing rewritten, no audit.
BypassOutcome(e) ==
    LET u == ExecWriteStmts(txn, e.stmts, e.policy, FALSE, maxTableRowCount)
    IN  /\ res'.error = u.err
        /\ txn' = IF u.err # NoError THEN txn ELSE u.db

\* The transaction of the single event e ended as its statements end under
\* the event's policy.
EnforcedOutcome(e) ==
    LET c == ExecWriteStmts(txn, e.stmts, e.policy, TRUE, maxTableRowCount)
    IN  /\ res'.error = c.err
        /\ txn' = IF c.err # NoError THEN txn ELSE c.db

\* C12 (as stated): a RunSQL event with isOwner true is never rejected or
\* rewritten by its policy.
C12_Original ==
    [][ \A e \in OwnerRunSQLEvents : Executes(e) => BypassOutcome(e) ]_vars

\* C12 (amended): a RunSQL event with isOwner true is not constrained by its
\* policy while the table has no controller; once a controller other than
\* zero is set, the event's policy is enforced although isOwner is true.
C12_OwnerBypassWithoutController ==
    [][ \A e \in OwnerRunSQLEvents :
          Executes(e) =>
            IF txn.controller = ZeroController
            THEN BypassOutcome(e) ELSE EnforcedOutcome(e) ]_vars

\* C12 witness: on a table without controller, an owner's insert under the
\* policy {AllowInsert: false} went through.
C12_Witness ==
    /\ Executed(RunSQL(TRUE, <<Insert("one")>>, PolicyDenyAll))
    /\ txn.controller = ZeroController
    /\ res.error = NoError
    /\ txn.rows["one"] > dbAtOpen.rows["one"]

\* The RunSQL events of SpecPolicy that carry a single statement.
SingleStmtEvents ==
    {events[1] : events \in {x \in PolicyTxnEventLists :
                                x[1].kind = "RunSQL" /\ Len(x[1].stmts) = 1}}

\* The policy's flag for the operation kind op is false.
Denies(pol, op) ==
    \/ op = "insert" /\ ~pol.allowInsert
    \/ op = "update" /\ ~pol.allowUpdate
    \/ op = "delete" /\ ~pol.allowDelete

\* C13: a statement on which the event's policy is enforced and whose
\* operation kind the policy does not allow fails its transaction with
\* "<kind> is not allowed by policy"; the statement is not executed (the
\* event leaves the transaction's database as it found it) and the table is
\* unchanged.
C13_DisallowedOperation ==
    [][ \A e \in SingleStmtEvents :
          LET s == e.stmts[1]
          IN  (Executes(e) /\ PolicyApplies(txn, e) /\ Denies(e.policy, s.op)) =>
                /\ res'.error.msg =
                     (IF s.op = "insert" THEN "insert is not allowed by policy"
                      ELSE IF s.op = "update" THEN "update is not allowed by policy"
                      ELSE "delete is not allowed by policy")
                /\ res'.errorEventIdx = 0
                /\ ExecEvent(txn, e, maxTableRowCount).db = txn
                /\ txn' = txn
      ]_vars

\* C13 witness: on a table with a controller and rows, DELETE FROM
\* foo_1337_100 under {AllowDelete: false} was rejected and the rows are
\* there.
C13_Witness ==
    /\ Executed(RunSQL(TRUE, <<Delete(NoVal)>>, PolicyDenyAll))
    /\ txn.controller = "0x1"
    /\ res.error = ErrNotAllowed("delete")
    /\ RowCount(txn.rows) > 0

\* C14: an UPDATE on which the event's policy is enforced and that sets a
\* column (zar) missing from the policy's non-empty updatableColumns fails
\* its transaction with "column zar is not allowed" although allowUpdate is
\* true, and no row is modified.
C14_ColumnNotAllowed ==
    [][ \A e \in SingleStmtEvents :
          LET s == e.stmts[1]
              pol == e.policy
          IN  (/\ Executes(e) /\ PolicyApplies(txn, e)
               /\ s.op = "update" /\ pol.allowUpdate
               /\ pol.updatableColumns # {} /\ "zar" \notin pol.updatableColumns) =>
                /\ res'.error.msg = "column zar is not allowed"
                /\ ExecEvent(txn, e, maxTableRowCount).db = txn
                /\ txn' = txn
      ]_vars

\* C14 witness: on a table with a controller and rows, update foo_1337_100
\* set zar = 'three' under {AllowUpdate: true, UpdatableColumns: {"zaz"}}
\* was rejected and no row holds 'three'.
C14_Witness ==
    /\ Executed(RunSQL(TRUE, <<Update("three", NoVal)>>, PolicyColsZaz))
    /\ txn.controller = "0x1"
    /\ res.error = ErrColumn
    /\ RowCount(txn.rows) > 0
    /\ txn.rows["three"] = 0

\* C15: with the policy's whereClause set (zar = w), an UPDATE or DELETE on
\* which the policy is enforced changes only the rows that satisfy both the
\* statement's predicate and zar = w: every other row is left as it is, also
\* when the statement has no predicate.
C15_WhereClauseConjoined ==
    [][ \A e \in SingleStmtEvents :
          LET s == e.stmts[1]
              w == e.policy.whereClause
              hit == IF s.where \in {NoVal, w} THEN txn.rows[w] ELSE 0
          IN  (/\ Executes(e) /\ PolicyApplies(txn, e)
               /\ w # NoVal /\ s.op \in {"update", "delete"}
               /\ res'.error = NoError) =>
                \A v \in Vals :
                    txn'.rows[v] = txn.rows[v]
                                   - (IF v = w THEN hit ELSE 0)
                                   + (IF s.op = "update" /\ v = s.val
                                      THEN hit ELSE 0)
      ]_vars

\* C15 witness: with the rows 'one' and 'two' committed, update foo_1337_100
\* set zar = 'three' under WhereClause "zar = 'two'" went through and the
\* table holds 'one' and 'three'.
C15_Witness ==
    /\ Executed(RunSQL(TRUE, <<Update("three", NoVal)>>, PolicyWhereTwo))
    /\ txn.controller = "0x1"
    /\ res.error = NoError
    /\ db.rows = [EmptyRows EXCEPT !["one"] = 1, !["two"] = 1]
    /\ txn.rows = [EmptyRows EXCEPT !["one"] = 1, !["three"] = 1]

\* C16: with the policy's withCheck set and the policy enforced, the
\* transaction of a statement succeeds only if as many of the rows it
\* touched satisfy the check as it affected.  On a mismatch (and the row
\* count within the maximum) it fails with "number of affected rows A does
\* not match auditing count C": the statement had been executed, its write
\* is undone, and a Commit persists the table without it.  The two inserts of the test
\* "insert with check satisfied" both go through.
C16_WithCheckAudit ==
    [][ /\ \A e \in SingleStmtEvents :
             LET s == e.stmts[1]
                 pol == e.policy
                 affected == IF s.op = "insert" THEN 1
                             ELSE IF s.where = NoVal THEN RowCount(txn.rows)
                             ELSE txn.rows[s.where]
                 count == IF s.op # "delete" /\ s.val \in pol.withCheck
                          THEN affected ELSE 0
                 exceeded == /\ maxTableRowCount > 0 /\ s.op = "insert"
                             /\ RowCount(txn.rows) + 1 > maxTableRowCount
             IN  (/\ Executes(e) /\ PolicyApplies(txn, e) /\ pol.hasCheck
                  /\ ~Denies(pol, s.op)) =>
                   /\ res'.error = NoError => count = affected
                   /\ (count # affected /\ ~exceeded) =>
                         /\ res'.error = ErrAudit(affected, count)
                         /\ ExecEvent(txn, e, maxTableRowCount).db.rows
                              = ExecRows(txn.rows, s, NoVal)
                         /\ txn' = txn
                   /\ (count = affected /\ ~exceeded) => res'.error = NoError
        /\ LET e == RunSQL(TRUE, <<Insert("one"), Insert("two")>>, PolicyCheckOneTwo)
           IN  (/\ Executes(e) /\ PolicyApplies(txn, e)
                /\ (maxTableRowCount = 0
                    \/ RowCount(txn.rows) + 2 <= maxTableRowCount)) =>
                  /\ res'.error = NoError
                  /\ RowCount(txn'.rows) = RowCount(txn.rows) + 2
        /\ (lastOp' = "Commit" /\ opErr' = NoErr) => db' = txn
      ]_vars

\* C16 witness: with the row 'one' in the table, update foo_1337_100 SET
\* zar = 'three' under WithCheck "zar = 'two'" failed with affected 1 and
\* audit count 0, and the row still holds 'one'.
C16_Witness ==
    /\ Executed(RunSQL(TRUE, <<Update("three", NoVal)>>, PolicyCheckTwo))
    /\ txn.controller = "0x1"
    /\ res.error = ErrAudit(1, 0)
    /\ txn.rows = [EmptyRows EXCEPT !["one"] = 1]

\* The RunSQL event that carries the grant and revoke statements ss.
AclEvent(ss) == RunSQL(TRUE, ss, PolicyAllowAll)

\* The privileges that the statements of kind op among ss name for the
\* controller c.
NamedFor(ss, op, c) ==
    UNION {ss[i].privs :
              i \in {j \in 1 .. Len(ss) :
                        /\ ss[j].op = op
                        /\ \E role \in ss[j].roles : RoleString(role) = c}}

\* Every statement of ss is of kind op.
AllOfKind(ss, op) == \A i \in 1 .. Len(ss) : ss[i].op = op

\* C17: grant is a union per grantee.  A transaction of grant statements
\* succeeds and leaves every controller with what it held before together
\* with all the privileges the statements grant to it: a privilege it held
\* already changes nothing, and a controller no statement names keeps its
\* set.  Commit persists exactly these sets.
C17_GrantUnion ==
    [][ /\ \A ss \in AclStmtLists :
             (Executes(AclEvent(ss)) /\ AllOfKind(ss, "grant")) =>
               /\ res'.error = NoError
               /\ \A c \in ACLControllers :
                     txn'.acl[c] = txn.acl[c] \cup NamedFor(ss, "grant", c)
        /\ (lastOp' = "Commit" /\ opErr' = NoErr) => db'.acl = txn.acl
      ]_vars

\* C17 witness: the three grants of the test "grant upsert" ran; 0xD43C...
\* holds insert and update, 0x4afE... holds insert and delete.
C17_Witness ==
    /\ Executed(AclEvent(<<Grant({"insert"}, {RoleD43C, Role4AFE}),
                           Grant({"update"}, {RoleD43C}),
                           Grant({"insert", "delete"}, {Role4AFE})>>))
    /\ res.error = NoError
    /\ db.acl = EmptyACL
    /\ txn.acl["0xD43C59d5694eC111Eb9e986C233200b14249558D"] = {"insert", "update"}
    /\ txn.acl["0x4afE8e30DB4549384b0a05bb796468B130c7D6E0"] = {"insert", "delete"}

\* C18: revoke is a set difference.  A transaction of revoke statements
\* leaves every controller with what it held minus the privileges revoked
\* from it, and granting G and then revoking R leaves the controller with
\* (held \cup G) \ R: from nothing, granting {insert, update, delete} and
\* revoking {insert, delete} leaves exactly {update}.
C18_RevokeDifference ==
    [][ /\ \A ss \in AclStmtLists :
             (Executes(AclEvent(ss)) /\ AllOfKind(ss, "revoke")) =>
               /\ res'.error = NoError
               /\ \A c \in ACLControllers :
                     txn'.acl[c] = txn.acl[c] \ NamedFor(ss, "revoke", c)
        /\ LET G == {"insert", "update", "delete"}
               R == {"insert", "delete"}
               c == RoleString(RoleD43C)
           IN  Executes(AclEvent(<<Grant(G, {RoleD43C}), Revoke(R, {RoleD43C})>>)) =>
                 /\ res'.error = NoError
                 /\ txn'.acl[c] = (txn.acl[c] \cup G) \ R
                 /\ txn'.acl[c] = {"update"}
                 /\ \A o \in ACLControllers \ {c} : txn'.acl[o] = txn.acl[o]
      ]_vars

\* C18 witness: the grant and the revoke of the test "grant revoke" ran on
\* an ACL Store without grants; 0xD43C... holds exactly update.
C18_Witness ==
    /\ Executed(AclEvent(<<Grant({"insert", "update", "delete"}, {RoleD43C}),
                           Revoke({"insert", "delete"}, {RoleD43C})>>))
    /\ res.error = NoError
    /\ db.acl = EmptyACL
    /\ txn.acl["0xD43C59d5694eC111Eb9e986C233200b14249558D"] = {"update"}
    /\ txn.acl["0x4afE8e30DB4549384b0a05bb796468B130c7D6E0"] = {}

\* C19: grant and revoke are idempotent, and revoke does not fail on a
\* privilege that is not held.  A statement carried twice by a transaction
\* leaves the ACL Store as the statement carried once does; after any grant
\* or revoke, the same statement again succeeds and changes nothing; a
\* revoke of privileges its controllers do not hold succeeds and leaves the
\* ACL Store as it is.
C19_GrantRevokeIdempotent ==
    [][ \A s \in AclStmts :
          LET single == ExecEvents(txn, <<AclEvent(<<s>>)>>, 1, maxTableRowCount)
              again == ExecEvents(txn', <<AclEvent(<<s>>)>>, 1, maxTableRowCount)
          IN  /\ Executes(AclEvent(<<s, s>>)) =>
                   (res'.error = NoError /\ single.err = NoError /\ txn' = single.db)
              /\ Executes(AclEvent(<<s>>)) =>
                   /\ res'.error = NoError
                   /\ again.err = NoError /\ again.db = txn'
                   /\ (/\ s.op = "revoke"
                       /\ \A role \in s.roles :
                             txn.acl[RoleString(role)] \cap s.privs = {})
                         => txn' = txn
      ]_vars

\* C19 witness: revoke insert, delete from 0xD43C... ran twice in one
\* transaction on a controller that holds update; it still holds update.
C19_Witness ==
    /\ Executed(AclEvent(<<Revoke({"insert", "delete"}, {RoleD43C}),
                           Revoke({"insert", "delete"}, {RoleD43C})>>))
    /\ res.error = NoError
    /\ txn.acl["0xD43C59d5694eC111Eb9e986C233200b14249558D"] = {"update"}

\* C20: when a block scope whose successful transactions carry insert
\* statements is committed, the table holds the rows it held when the scope
\* was opened plus one row per insert statement of those transactions: a
\* transaction with two insert statements counts twice (a failed transaction
\* counts nothing, its rows are rolled back).
C20_InsertSum ==
    (lastOp = "Commit" /\ opErr = NoErr /\ onlyInserts) =>
        RowCount(db.rows) = RowCount(dbAtOpen.rows) + inserted

\* C20 witness: a scope opened on the empty table was committed after a
\* transaction whose event carries the two statements insert 'one' and
\* insert 'two' (no other insert-only transaction leaves these two rows); the
\* table holds 2 rows.
C20_Witness ==
    /\ lastOp = "Commit" /\ opErr = NoErr /\ onlyInserts
    /\ dbAtOpen.rows = EmptyRows
    /\ inserted = 2
    /\ db.rows = [EmptyRows EXCEPT !["one"] = 1, !["two"] = 1]

\* ----------------------------------------------------------- Executor.Close
\* Executor.Close(ctx) while a block scope is open: the scope's transaction
\* is rolled back, then the connection is released.
ExecutorCloseOpen ==
    /\ ~exClosed
    /\ ScopeIsOpen(bsState)
    /\ db' = CloseRollback(db, txn)
    /\ txn' = db'
    /\ bsState' = "closed"
    /\ nOpen' = nOpen - 1
    /\ exClosed' = TRUE
    /\ closedOpen' = TRUE
    /\ Returned("Executor.Close", NoErr)
    /\ NoTxnResult
    /\ UNCHANGED collaboratorVars
    /\ UNCHANGED <<maxTableRowCount, bsHeight, lastHeight, dbAtOpen, expected,
                   stage, inserted, onlyInserts>>

\* Executor.Close(ctx) with no block scope open: the connection is released.
ExecutorCloseIdle ==
    /\ ~exClosed
    /\ ~ScopeIsOpen(bsState)
    /\ exClosed' = TRUE
    /\ Returned("Executor.Close", NoErr)
    /\ NoTxnResult
    /\ UNCHANGED collaboratorVars
    /\ UNCHANGED <<maxTableRowCount, nOpen, db, txn, bsState, bsHeight,
                   lastHeight, dbAtOpen, expected, stage, inserted, onlyInserts,
                   closedOpen>>

\* Executor.Close(ctx) on an executor that was closed already.
ExecutorCloseAgain ==
    /\ exClosed
    /\ Returned("Executor.Close", NoErr)
    /\ NoTxnResult
    /\ UNCHANGED collaboratorVars
    /\ UNCHANGED <<maxTableRowCount, nOpen, db, txn, bsState, bsHeight,
                   lastHeight, dbAtOpen, expected, stage, inserted, onlyInserts,
                   executorVars>>

\* The operations of the engine on an executor that still holds its
\* connection; a closed executor serves nothing but Close.
ServingNewBlockScope(height) == ~exClosed /\ NewBlockScopeOpens(height)
ServingExecuteTxnEvents(events) == ~exClosed /\ ExecuteTxnEvents(events)
ServingCommit == ~exClosed /\ Commit
ServingCloseOpen == ~exClosed /\ CloseOpen
ServingCloseCommitted == ~exClosed /\ CloseCommitted

NextClose ==
    \/ ServingNewBlockScope(TestHeight)
    \/ \E events \in InsertTxnEventLists : ServingExecuteTxnEvents(events)
    \/ ServingCommit
    \/ ServingCloseOpen
    \/ ServingCloseCommitted
    \/ ExecutorCloseOpen
    \/ ExecutorCloseIdle
    \/ ExecutorCloseAgain

SpecClose == InitNoLimit /\ [][NextClose]_vars

\* C21: Executor.Close() rolls back a block scope that is still open before
\* it releases the connection, so the committed database is the one from
\* before the call and none of the scope's writes survive; it returns no
\* error with or without an open scope, and called on a closed executor it
\* leaves the whole state as the first call left it.
C21_ExecutorClose ==
    [][lastOp' = "Executor.Close"
       => /\ exClosed'
          /\ opErr' = NoErr
          /\ db' = db
          /\ txn' = db
          /\ ~ScopeIsOpen(bsState')
          /\ nOpen' = 0
          /\ (ScopeIsOpen(bsState) => bsState' = "closed")
          /\ (exClosed => UNCHANGED vars)]_vars

\* An executor closed over an open scope that had written rows.
C21_Witness ==
    /\ exClosed
    /\ closedOpen
    /\ lastOp = "Executor.Close"
    /\ expected # db
    /\ bsState = "closed"

\* ---------------------------------------------------------------- telemetry
\* What Collect returns.
RetNil == "nil"
RetStoreMetric == "store metric: error"
RetUnknownType == "unknown metric type"
RetPanic == "panic"

\* A panic ends the program: no goroutine takes another step.
Alive == \A g \in Goroutines : pc[g] # "panic"

\* A sync.Once that runs f on every call.
OnceRunsAlways(o) == o # "running"

\* once.Do(f) runs f when no call ran it before.
OnceRuns(o) == o = "new"

\* A Collect that looks at the metric's type before it looks at the store.
CollectBranchTypeFirst(store, metric) ==
    IF metric # StateHash THEN "unknown"
    ELSE IF store = NilStore THEN "noop"
    ELSE "store"

\* The path Collect takes for the store it read and the metric it was given:
\* the nil check comes first, then the type switch.
CollectBranch(store, metric) ==
    IF store = NilStore THEN "noop"
    ELSE IF metric = StateHash THEN "store"
    ELSE "unknown"

\* The values a read of metricStore by goroutine g can return.  The variable
\* is written inside once.Do without mu, so the read of a Collect that holds
\* mu can run while another goroutine is about to write: such a read is a
\* data race and returns the old value, the new one or a torn one.
Observed(g) ==
    LET writers == {h \in Goroutines \ {g} : pc[h] = "write"}
    IN  {metricStore} \cup {arg[h] : h \in writers}
        \cup (IF writers = {} THEN {} ELSE {TornStore})

\* SetMetricStore(s) is called by goroutine g.
SetMetricStoreCall(g, s) ==
    /\ Alive
    /\ pc[g] = "idle"
    /\ pc' = [pc EXCEPT ![g] = "once"]
    /\ arg' = [arg EXCEPT ![g] = s]
    /\ UNCHANGED <<metricStore, once, mu, seen, ret, called, firstArg>>
    /\ UNCHANGED <<engineVars, executorVars, clientVars>>

\* once.Do: the first caller goes on to run f, a caller that finds f
\* running waits for it, a later caller returns at once.
SetMetricStoreOnce(g) ==
    /\ Alive
    /\ pc[g] = "once"
    /\ once # "running"
    /\ IF OnceRuns(once)
       THEN /\ once' = "running"
            /\ pc' = [pc EXCEPT ![g] = "write"]
            /\ firstArg' = IF firstArg = NoArg THEN arg[g] ELSE firstArg
       ELSE /\ pc' = [pc EXCEPT ![g] = "idle"]
            /\ UNCHANGED <<once, firstArg>>
    /\ UNCHANGED <<metricStore, mu, arg, seen, ret, called>>
    /\ UNCHANGED <<engineVars, executorVars, clientVars>>

\* metricStore = s, inside once.Do, then once is marked done.
SetMetricStoreWrite(g) ==
    /\ Alive
    /\ pc[g] = "write"
    /\ metricStore' = arg[g]
    /\ once' = "done"
    /\ pc' = [pc EXCEPT ![g] = "idle"]
    /\ arg' = [arg EXCEPT ![g] = NoArg]
    /\ UNCHANGED <<mu, seen, ret, called, firstArg>>
    /\ UNCHANGED <<engineVars, executorVars, clientVars>>

\* Collect(ctx, metric) is called by goroutine g.
CollectCall(g, metric) ==
    /\ Alive
    /\ pc[g] = "idle"
    /\ pc' = [pc EXCEPT ![g] = "lock"]
    /\ arg' = [arg EXCEPT ![g] = metric]
    /\ seen' = [seen EXCEPT ![g] = NoArg]
    /\ ret' = [ret EXCEPT ![g] = NoArg]
    /\ called' = [called EXCEPT ![g] = FALSE]
    /\ UNCHANGED <<metricStore, once, mu, firstArg>>
    /\ UNCHANGED <<engineVars, executorVars, clientVars>>

\* mu.Lock()
CollectLock(g) ==
    /\ Alive
    /\ pc[g] = "lock"
    /\ mu = NoGoroutine
    /\ mu' = g
    /\ pc' = [pc EXCEPT ![g] = "check"]
    /\ UNCHANGED <<metricStore, once, arg, seen, ret, called, firstArg>>
    /\ UNCHANGED <<engineVars, executorVars, clientVars>>

\* if metricStore == nil { return nil }, then the type switch: a StateHash
\* goes on to StoreMetric, any other metric returns an error.  Every return
\* runs the deferred mu.Unlock().
CollectCheck(g) ==
    /\ Alive
    /\ pc[g] = "check"
    /\ \E v \in Observed(g) :
         /\ seen' = [seen EXCEPT ![g] = v]
         /\ LET branch == CollectBranch(v, arg[g])
            IN  IF branch = "store"
                THEN /\ pc' = [pc EXCEPT ![g] = "store"]
                     /\ UNCHANGED <<mu, ret>>
                ELSE /\ pc' = [pc EXCEPT ![g] = "idle"]
                     /\ mu' = NoGoroutine
                     /\ ret' = [ret EXCEPT ![g] =
                                  IF branch = "noop" THEN RetNil
                                  ELSE RetUnknownType]
    /\ UNCHANGED <<metricStore, once, arg, called, firstArg>>
    /\ UNCHANGED <<engineVars, executorVars, clientVars>>

\* metricStore.StoreMetric(ctx, Metric{...}) returns: the variable is read
\* again for the call (seen keeps the value), which panics on a nil or torn
\* value and otherwise succeeds or fails as the store decides.
CollectStore(g) ==
    /\ Alive
    /\ pc[g] = "store"
    /\ \E v \in Observed(g), failed \in BOOLEAN :
         /\ seen' = [seen EXCEPT ![g] = v]
         /\ IF v \in Stores
            THEN /\ called' = [called EXCEPT ![g] = TRUE]
                 /\ ret' = [ret EXCEPT ![g] =
                              IF failed THEN RetStoreMetric ELSE RetNil]
                 /\ pc' = [pc EXCEPT ![g] = "idle"]
            ELSE /\ ret' = [ret EXCEPT ![g] = RetPanic]
                 /\ pc' = [pc EXCEPT ![g] = "panic"]
                 /\ UNCHANGED called
    /\ mu' = NoGoroutine
    /\ UNCHANGED <<metricStore, once, arg, firstArg>>
    /\ UNCHANGED <<engineVars, executorVars, clientVars>>

\* Goroutines that call SetMetricStore and Collect in any interleaving.
NextTelemetry ==
    \/ \E g \in Goroutines, s \in Stores \cup {NilStore} : SetMetricStoreCall(g, s)
    \/ \E g \in Goroutines : SetMetricStoreOnce(g)
    \/ \E g \in Goroutines : SetMetricStoreWrite(g)
    \/ \E g \in Goroutines, metric \in Metrics : CollectCall(g, metric)
    \/ \E g \in Goroutines : CollectLock(g)
    \/ \E g \in Goroutines : CollectCheck(g)
    \/ \E g \in Goroutines : CollectStore(g)

SpecTelemetry == InitNoLimit /\ [][NextTelemetry]_vars

\* C23: SetMetricStore takes effect only on its first call.  Once the first
\* call has returned, metricStore is that call's argument and no step
\* changes it, whatever later calls pass; and every read of the store by a
\* Collect from then on, at the nil check and for StoreMetric, yields it.
C23_FirstCallOnly ==
    [][once = "done"
       => /\ metricStore = firstArg
          /\ metricStore' = metricStore
          /\ firstArg' = firstArg
          /\ \A g \in Goroutines :
                (pc[g] \in {"check", "store"} /\ pc'[g] # pc[g])
                    => seen'[g] = firstArg]_vars

\* The first call set a store, a later call with the other store has
\* returned, and a Collect has stored a metric in the first call's store.
C23_Witness ==
    /\ once = "done"
    /\ metricStore = "s1"
    /\ \E g \in Goroutines : pc[g] = "idle" /\ arg[g] = "s2"
    /\ \E g \in Goroutines :
          pc[g] = "idle" /\ called[g] /\ seen[g] = "s1" /\ ret[g] = RetNil

\* C24: a Collect whose nil check runs while no store is set (no call of
\* SetMetricStore has run once.Do, or the first call passed nil) returns
\* nil at that check and releases mu: StoreMetric is not invoked and no error
\* is returned, for a StateHash and for a metric of an unknown type alike.
C24_CollectWithoutStore ==
    [][\A g \in Goroutines :
          (/\ pc[g] = "check"
           /\ pc'[g] # "check"
           /\ once # "running"
           /\ metricStore = NilStore)
          => /\ pc'[g] = "idle"
             /\ ret'[g] = RetNil
             /\ ~called'[g]
             /\ mu' = NoGoroutine]_vars

\* Before any call of SetMetricStore, a Collect of a metric of an unknown
\* type has returned nil without a StoreMetric.
C24_Witness ==
    /\ once = "new"
    /\ \A g \in Goroutines : pc[g] # "once"
    /\ \E g \in Goroutines :
          /\ pc[g] = "idle"
          /\ arg[g] = OtherMetric
          /\ seen[g] = NilStore
          /\ ret[g] = RetNil
          /\ ~called[g]

\* C30: every access to metricStore is mutually exclusive.  No goroutine is
\* at a read of metricStore in Collect (the nil check, the StoreMetric call)
\* while another is at the write in SetMetricStore, and at most one
\* StoreMetric call is in progress.
C30_MutuallyExclusive ==
    /\ \A g, h \in Goroutines :
          ~(pc[g] = "write" /\ pc[h] \in {"check", "store"})
    /\ Cardinality({g \in Goroutines : pc[g] = "store"}) <= 1

\* ------------------------------------------------------------------ ordering
\* The test "grant revoke": one event that grants insert, update, delete to
\* 0xD43C... and then revokes insert, delete; and the same two statements
\* the other way round.
GrantThenRevoke ==
    RunSQL(TRUE, <<Grant({"insert", "update", "delete"}, {RoleD43C}),
                   Revoke({"insert", "delete"}, {RoleD43C})>>, PolicyAllowAll)
RevokeThenGrant ==
    RunSQL(TRUE, <<Revoke({"insert", "delete"}, {RoleD43C}),
                   Grant({"insert", "update", "delete"}, {RoleD43C})>>, PolicyAllowAll)

\* An insert that is rejected once a controller is set.
DeniedInsert == RunSQL(TRUE, <<Insert("one")>>, PolicyDenyAll)

\* The transactions explored by SpecOrder, of one and of two events: a
\* SetController and an insert its policy denies, apart and together; two
\* inserts; grants and revokes in both orders; a grant and a SetController
\* in transactions that fail afterwards.
OrderTxnEventLists ==
    {<<SetController("0x1")>>,
     <<DeniedInsert>>,
     <<SetController("0x1"), DeniedInsert>>,
     <<RunSQL(TRUE, <<Insert("one")>>, PolicyAllowAll)>>,
     <<RunSQL(TRUE, <<Insert("one")>>, PolicyAllowAll),
       RunSQL(TRUE, <<Insert("two")>>, PolicyAllowAll)>>,
     <<GrantThenRevoke>>,
     <<RevokeThenGrant>>,
     <<RunSQL(TRUE, <<Grant({"insert", "delete"}, {Role4AFE}),
                      InsertWrongTable("three")>>, PolicyAllowAll)>>,
     <<SetController("0x1"),
       RunSQL(TRUE, <<InsertWrongTable("three")>>, PolicyAllowAll)>>}

\* Block scopes that run these transactions and are committed or closed.
NextOrder ==
    \/ NewBlockScopeOpens(TestHeight)
    \/ \E events \in OrderTxnEventLists : ExecuteTxnEventsTraced(events)
    \/ Commit
    \/ CloseOpen
    \/ CloseCommitted

SpecOrder == Init /\ [][NextOrder]_vars

\* C25: events and transactions are applied in the order received.  The
\* first event of a transaction runs on the database the transaction before
\* it left in the scope; the second event runs on the database the first
\* left, so its policy and row-count checks see the first event's effect;
\* the transaction fails at the index of the first event that fails.  The
\* statements of an event run in order too: grant then revoke leaves the
\* granted privileges minus the revoked ones, revoke then grant leaves all
\* the granted ones.
C25_InOrder ==
    [][\A events \in OrderTxnEventLists :
          (lastOp' = "ExecuteTxnEvents" /\ opErr' = NoErr /\ lastEv' = events)
          => LET first == ExecEvent(txn, events[1], maxTableRowCount)
                 second == ExecEvent(first.db, events[2], maxTableRowCount)
                 held == txn.acl[RoleString(RoleD43C)]
             IN  /\ IF first.err # NoError
                    THEN /\ res' = [error |-> first.err, errorEventIdx |-> 0]
                         /\ txn' = txn
                    ELSE IF Len(events) = 1
                    THEN /\ res' = NoResult
                         /\ txn' = first.db
                    ELSE IF second.err # NoError
                    THEN /\ res' = [error |-> second.err, errorEventIdx |-> 1]
                         /\ txn' = txn
                    ELSE /\ res' = NoResult
                         /\ txn' = second.db
                 /\ events = <<GrantThenRevoke>> =>
                      txn'.acl[RoleString(RoleD43C)] =
                          (held \cup {"insert", "update", "delete"})
                              \ {"insert", "delete"}
                 /\ events = <<RevokeThenGrant>> =>
                      txn'.acl[RoleString(RoleD43C)] =
                          (held \ {"insert", "delete"})
                              \cup {"insert", "update", "delete"}
                 /\ events = <<SetController("0x1"), DeniedInsert>> =>
                      res' = [error |-> ErrNotAllowed("insert"),
                              errorEventIdx |-> 1]
      ]_vars

\* C25 witness: a scope opened without a controller ran SetController in
\* one transaction and the denied insert in a later one, which failed on
\* the policy.
C25_Witness ==
    /\ bsState = "open"
    /\ dbAtOpen.controller = ZeroController
    /\ txn.controller = "0x1"
    /\ lastEv = <<DeniedInsert>>
    /\ res = [error |-> ErrNotAllowed("insert"), errorEventIdx |-> 0]

\* C26: the ACL Store has no commit boundary of its own.  A transaction that
\* fails leaves the privileges and the controller of the scope's transaction
\* as they were, whatever its grants, revokes and SetController did before
\* the failure; Close() on an open scope leaves the committed privileges and
\* controller as they were, and the scope's own are gone with it.
C26_AclRolledBack ==
    [][/\ (lastOp' = "ExecuteTxnEvents" /\ opErr' = NoErr /\ res'.error # NoError)
          => (txn'.acl = txn.acl /\ txn'.controller = txn.controller)
       /\ (ScopeIsOpen(bsState) /\ lastOp' = "Close")
          => /\ db'.acl = db.acl
             /\ db'.controller = db.controller
             /\ txn'.acl = db.acl
             /\ txn'.controller = db.controller
      ]_vars

\* C26 witness: a scope whose transactions granted privileges and set the
\* controller was closed without Commit; the database holds neither.
C26_Witness ==
    /\ lastOp = "Close"
    /\ bsState = "closed"
    /\ expected.acl # db.acl
    /\ expected.controller # db.controller
    /\ db.acl = EmptyACL
    /\ db.controller = ZeroController
    /\ txn = db

\* C27: a configured maximum row count of 0 disables the row-count check.
\* With maximum 0 every transaction of insert statements into the table
\* succeeds, each statement adding its row to whatever the table holds (an
\* empty table included), and Commit makes the rows the committed table's.
C27_ZeroDisablesRowCount ==
    [][maxTableRowCount = 0
       => /\ \A events \in InsertTxnEventLists :
                (/\ \A k \in 1 .. Len(events) :
                       \A i \in 1 .. Len(events[k].stmts) :
                          /\ events[k].stmts[i].op = "insert"
                          /\ events[k].stmts[i].table = TableID
                 /\ ExecuteTxnEventsCounted(events))
                => /\ res' = NoResult
                   /\ RowCount(txn'.rows) = RowCount(txn.rows) + InsertStmts(events)
          /\ (lastOp' = "Commit" /\ opErr' = NoErr) => db' = txn
      ]_vars

\* C27 witness: with maximum 0, two rows inserted into the empty table are
\* in the committed table.
C27_Witness ==
    /\ maxTableRowCount = 0
    /\ lastOp = "Commit"
    /\ opErr = NoErr
    /\ dbAtOpen = EmptyDB
    /\ inserted = 2
    /\ onlyInserts
    /\ RowCount(db.rows) = 2

\* ----------------------------------------------------------- registry client
\* strings.Contains(err.Error(), errMsg), on texts kept as their phrases.
Contains(text, phrase) == \E i \in 1 .. Len(text) : text[i] = phrase

\* possibleErrMgs of callWithRetry.
possibleErrMgs == {"nonce too low", "invalid transaction nonce"}

\* A callWithRetry that retries after any error.
ShouldRetryAlways(err) == TRUE

\* The error of the first invocation carries one of possibleErrMgs.
ShouldRetry(err) == \E errMsg \in possibleErrMgs : Contains(err, errMsg)

\* An unlock() that is called on the successful path only.
UnlockOnSuccessOnly(ok) == ok

\* defer unlock(): it runs on every return of the attempt.
UnlockDeferred(ok) == TRUE

\* The errors the contract call returns: the two that speak of the nonce,
\* bare and inside a longer text, and one that does not.
ContractErrors ==
    {<<"nonce too low">>,
     <<"rpc error:", "invalid transaction nonce", "(next 7)">>,
     <<"execution reverted">>}
\* The error of backend.SuggestGasPrice and the one of tracker.Resync.
BackendError == <<"suggest gas price:", "backend unavailable">>
ResyncError == <<"get pending nonce failed">>

\* fmt.Errorf("retryable <method> call: %s", err)
Retryable(method, err) == <<"retryable", method, "call:">> \o err
\* fmt.Errorf("contract call: %s", err), "resync: %s", "retry contract call: %s"
ContractCallError(err) == <<"contract call:">> \o err
ResyncFailed(err) == <<"resync:">> \o err
RetryContractCallError(err) == <<"retry contract call:">> \o err

\* CreateTable, RunSQL or SetController is called by caller c and reaches
\* callWithRetry.
ClientCall(c, method) ==
    /\ cpc[c] = "idle"
    /\ cpc' = [cpc EXCEPT ![c] = "f"]
    /\ cop' = [cop EXCEPT ![c] = method]
    /\ invoked' = [invoked EXCEPT ![c] = 0]
    /\ resyncs' = [resyncs EXCEPT ![c] = 0]
    /\ ferr' = [ferr EXCEPT ![c] = NoErrText]
    /\ callRet' = [callRet EXCEPT ![c] = NoRet]
    /\ unlocked' = [unlocked EXCEPT ![c] = 0]
    /\ registered' = [registered EXCEPT ![c] = 0]
    /\ firstErr' = [firstErr EXCEPT ![c] = NoErrText]
    /\ resyncOk' = [resyncOk EXCEPT ![c] = FALSE]
    /\ UNCHANGED nonceLock
    /\ UNCHANGED <<engineVars, executorVars, telemetryVars>>

\* The call returns before callWithRetry: the gas price suggestion failed.
ClientCallFailsEarly(c, method) ==
    /\ cpc[c] = "idle"
    /\ cop' = [cop EXCEPT ![c] = method]
    /\ invoked' = [invoked EXCEPT ![c] = 0]
    /\ resyncs' = [resyncs EXCEPT ![c] = 0]
    /\ ferr' = [ferr EXCEPT ![c] = NoErrText]
    /\ callRet' = [callRet EXCEPT ![c] = BackendError]
    /\ unlocked' = [unlocked EXCEPT ![c] = 0]
    /\ registered' = [registered EXCEPT ![c] = 0]
    /\ firstErr' = [firstErr EXCEPT ![c] = NoErrText]
    /\ resyncOk' = [resyncOk EXCEPT ![c] = FALSE]
    /\ UNCHANGED <<nonceLock, cpc>>
    /\ UNCHANGED <<engineVars, executorVars, telemetryVars>>

\* f(): registerPendingTx, unlock, nonce := c.tracker.GetNonce(ctx), which
\* takes the tracker's lock.
GetNonce(c) ==
    /\ cpc[c] = "f"
    /\ nonceLock = NoCaller
    /\ nonceLock' = c
    /\ cpc' = [cpc EXCEPT ![c] = "locked"]
    /\ invoked' = [invoked EXCEPT ![c] = invoked[c] + 1]
    /\ unlocked' = [unlocked EXCEPT ![c] = 0]
    /\ UNCHANGED <<cop, resyncs, ferr, callRet, registered, firstErr, resyncOk>>
    /\ UNCHANGED <<engineVars, executorVars, telemetryVars>>

\* The rest of f() and what callWithRetry does with its return: the contract
\* call; registerPendingTx(tx.Hash()) when it succeeded; the deferred
\* unlock(); then callWithRetry returns the transaction, goes on to Resync
\* (first invocation, an error that carries one of possibleErrMgs) or
\* returns the error.
ContractCall(c) ==
    /\ cpc[c] = "locked"
    /\ \E err \in ContractErrors \cup {NoErrText} :
         LET ok == err = NoErrText
             wrapped == IF invoked[c] = 1 THEN ContractCallError(err)
                        ELSE RetryContractCallError(err)
         IN  /\ ferr' = [ferr EXCEPT ![c] = err]
             /\ firstErr' = [firstErr EXCEPT ![c] =
                               IF invoked[c] = 1 THEN err ELSE firstErr[c]]
             /\ registered' = [registered EXCEPT ![c] =
                                 IF ok THEN registered[c] + 1 ELSE registered[c]]
             /\ IF UnlockDeferred(ok)
                THEN /\ nonceLock' = NoCaller
                     /\ unlocked' = [unlocked EXCEPT ![c] = unlocked[c] + 1]
                ELSE UNCHANGED <<nonceLock, unlocked>>
             /\ IF ok
                THEN /\ cpc' = [cpc EXCEPT ![c] = "idle"]
                     /\ callRet' = [callRet EXCEPT ![c] = RetTx]
                ELSE IF invoked[c] = 1 /\ ShouldRetry(err)
                THEN /\ cpc' = [cpc EXCEPT ![c] = "resync"]
                     /\ UNCHANGED callRet
                ELSE /\ cpc' = [cpc EXCEPT ![c] = "idle"]
                     /\ callRet' = [callRet EXCEPT ![c] = Retryable(cop[c], wrapped)]
    /\ UNCHANGED <<cop, invoked, resyncs, resyncOk>>
    /\ UNCHANGED <<engineVars, executorVars, telemetryVars>>

\* c.tracker.Resync(ctx): on success f is invoked again, on failure the
\* call returns.
Resync(c) ==
    /\ cpc[c] = "resync"
    /\ resyncs' = [resyncs EXCEPT ![c] = resyncs[c] + 1]
    /\ \E ok \in BOOLEAN :
         /\ resyncOk' = [resyncOk EXCEPT ![c] = ok]
         /\ IF ok
            THEN /\ cpc' = [cpc EXCEPT ![c] = "f"]
                 /\ UNCHANGED callRet
            ELSE /\ cpc' = [cpc EXCEPT ![c] = "idle"]
                 /\ callRet' = [callRet EXCEPT ![c] =
                                  Retryable(cop[c], ResyncFailed(ResyncError))]
    /\ UNCHANGED <<nonceLock, cop, invoked, ferr, unlocked, registered, firstErr>>
    /\ UNCHANGED <<engineVars, executorVars, telemetryVars>>

\* Callers of the registry client in any interleaving.
NextClient ==
    \/ \E c \in Callers, method \in ClientMethods : ClientCall(c, method)
    \/ \E c \in Callers, method \in ClientMethods : ClientCallFailsEarly(c, method)
    \/ \E c \in Callers : GetNonce(c)
    \/ \E c \in Callers : ContractCall(c)
    \/ \E c \in Callers : Resync(c)

SpecClient == InitNoLimit /\ [][NextClient]_vars

\* C28: callWithRetry invokes f at most twice and Resync at most once.  The
\* second invocation happens exactly when the first returned an error whose
\* text contains "nonce too low" or "invalid transaction nonce" and Resync
\* then succeeded.  A call that has returned after invoking f returned: the
\* transaction, if the last invocation succeeded; the first error as
\* "contract call", with no Resync, if it names neither text; the Resync
\* error, after one invocation, if Resync failed; the second error as "retry
\* contract call" if the second invocation failed.
C28_AtMostOneRetry ==
    \A c \in Callers :
        LET nonceError ==
                \/ Contains(firstErr[c], "nonce too low")
                \/ Contains(firstErr[c], "invalid transaction nonce")
            returned == cpc[c] = "idle" /\ invoked[c] >= 1
        IN  /\ invoked[c] <= 2
            /\ resyncs[c] <= 1
            /\ invoked[c] = 2 => (nonceError /\ resyncs[c] = 1 /\ resyncOk[c])
            /\ resyncs[c] = 1 => (invoked[c] >= 1 /\ nonceError)
            /\ returned =>
                 /\ callRet[c] # NoRet
                 /\ (nonceError /\ resyncOk[c]) => invoked[c] = 2
                 /\ firstErr[c] = NoErrText =>
                      (invoked[c] = 1 /\ resyncs[c] = 0 /\ callRet[c] = RetTx)
                 /\ (firstErr[c] # NoErrText /\ ~nonceError) =>
                      /\ invoked[c] = 1
                      /\ resyncs[c] = 0
                      /\ callRet[c] =
                           <<"retryable", cop[c], "call:", "contract call:">>
                               \o firstErr[c]
                 /\ (nonceError /\ ~resyncOk[c]) =>
                      /\ invoked[c] = 1
                      /\ resyncs[c] = 1
                      /\ callRet[c] =
                           <<"retryable", cop[c], "call:", "resync:">>
                               \o ResyncError
                 /\ (invoked[c] = 2 /\ ferr[c] # NoErrText) =>
                      callRet[c] =
                          <<"retryable", cop[c], "call:", "retry contract call:">>
                              \o ferr[c]
                 /\ (invoked[c] = 2 /\ ferr[c] = NoErrText) => callRet[c] = RetTx

\* C28 witness: the first invocation failed with a text that carries
\* "invalid transaction nonce", Resync succeeded, the second invocation
\* failed with an error that is no nonce error, and the call returned it.
C28_Witness ==
    \E c \in Callers :
        /\ cpc[c] = "idle"
        /\ invoked[c] = 2
        /\ resyncs[c] = 1
        /\ firstErr[c] = <<"rpc error:", "invalid transaction nonce", "(next 7)">>
        /\ ferr[c] = <<"execution reverted">>
        /\ callRet[c] = <<"retryable", "RunSQL", "call:", "retry contract call:",
                          "execution reverted">>

\* C29: the nonce lock is held by a caller exactly while it is inside an
\* attempt that obtained a nonce.  When the attempt returns, with or without
\* an error, unlock() has run once and the lock is free; registerPendingTx
\* has run once if the contract call succeeded and not at all otherwise, and
\* it runs nowhere else; a caller that is at Resync does not hold the lock.
C29_NonceLock ==
    [][\A c \in Callers :
          /\ (nonceLock' = c) <=> (cpc'[c] = "locked")
          /\ (cpc[c] = "locked" /\ cpc'[c] # "locked")
             => /\ nonceLock = c
                /\ nonceLock' = NoCaller
                /\ unlocked'[c] = 1
                /\ registered'[c] =
                     registered[c] + (IF ferr'[c] = NoErrText THEN 1 ELSE 0)
          /\ (cpc[c] # "locked") => registered'[c] \in {registered[c], 0}
          /\ (cpc[c] = "resync") => nonceLock # c
      ]_vars

\* C29 witness: a caller's first attempt failed on the nonce and its second
\* succeeded; it registered one pending transaction, released the lock, and
\* another caller holds the lock now.
C29_Witness ==
    \E c, d \in Callers :
        /\ c # d
        /\ cpc[c] = "idle"
        /\ invoked[c] = 2
        /\ firstErr[c] = <<"nonce too low">>
        /\ callRet[c] = RetTx
        /\ registered[c] = 1
        /\ unlocked[c] = 1
        /\ nonceLock = d
        /\ cpc[d] = "locked"

====
